---- MODULE Spec2Model ----
(***************************************************************************)
(* Model of src/app.py: process_and_plot (date parsing, fillna, the        *)
(* pagination loop) and generate_plot (lane assignment, interval clipping, *)
(* label fitting and truncation).                                          *)
(*                                                                         *)
(* Instants and durations are whole minutes; minute 0 is midnight of the   *)
(* first calendar day the inputs mention.  A text is a sequence of         *)
(* one-character strings.  A page is what generate_plot puts on the axes:  *)
(* a set of bars and a set of texts, each tagged with the dataframe index  *)
(* of the row it was drawn for.  table_data is the table of the request,   *)
(* df the dataframe process_and_plot works on (and fills in place), and    *)
(* windows the list of the windows the pagination loop has constructed.    *)
(*                                                                         *)
(* The arithmetic of text_fits and draw_text is exact here and in floating *)
(* point in the program; the two agree on every text and duration of the   *)
(* inputs below (texts of at most three characters, whole minutes).        *)
(***************************************************************************)
EXTENDS Integers, Sequences, FiniteSets, TLC

VARIABLES table_data, df, fecha_salida, fecha_llegada, pc, current_date,
          end_of_data, windows, pdf_buffers, result

vars == <<table_data, df, fecha_salida, fecha_llegada, pc, current_date,
          end_of_data, windows, pdf_buffers, result>>

(***************************************************************************)
(* Bounds of the model.                                                    *)
(***************************************************************************)
MaxFlights == 2

(***************************************************************************)
(* Program constants.                                                      *)
(***************************************************************************)
DayOffsetHours == 5
WindowHours == 27
WindowTrimMinutes == 1

Hours(h) == h * 60
Days(d) == d * 24 * 60

order == <<"N330QT", "N331QT", "N332QT", "N334QT", "N335QT", "N336QT", "N337QT">>

RequiredColumns == {"Reg.", "STD", "STA", "Flight", "Trip", "Notas", "Tripadi", "From", "To"}

formats == <<"dmy", "dmon">>

\* A missing cell (NaN / null) of a text column.
NaN == <<"NaN">>

Range(s) == {s[k] : k \in 1..Len(s)}

Min(S) == CHOOSE x \in S : \A y \in S : x <= y
Max(S) == CHOOSE x \in S : \A y \in S : x >= y

(***************************************************************************)
(* parse_dates: the first format that parses the WHOLE column is used for  *)
(* every value; no format matching raises ValueError.  A raw date is the   *)
(* pair of the textual form it is written in and the instant it denotes.   *)
(***************************************************************************)
to_datetime_ok(date_series, fmt) == \A k \in 1..Len(date_series) : date_series[k].form = fmt

to_datetime(date_series) == [k \in 1..Len(date_series) |-> date_series[k].t]

parse_dates(date_series) ==
    IF to_datetime_ok(date_series, formats[1])
    THEN [ok |-> TRUE, values |-> to_datetime(date_series)]
    ELSE IF to_datetime_ok(date_series, formats[2])
    THEN [ok |-> TRUE, values |-> to_datetime(date_series)]
    ELSE [ok |-> FALSE, values |-> <<>>]

\* The columns of the dataframe (every row has the same ones).
Columns == DOMAIN df[1]

\* df[name]; reading a column that is not in Columns is a KeyError.
Column(name) == [k \in 1..Len(df) |-> df[k][name]]

\* Timestamp.normalize(): midnight of the instant's calendar day.
normalize(t) == t - (t % Days(1))

\* fillna that leaves the missing cell as it is.
fillna_none(v) == v

fillna(v) == IF v = NaN THEN <<" ">> ELSE v

(***************************************************************************)
(* text_fits and draw_text.                                                *)
(***************************************************************************)
total_seconds(duration) == duration * 60

\* duration.total_seconds() / 3600 >= len(text) * 0.02
text_fits(text, duration) == total_seconds(duration) * 100 >= Len(text) * 2 * 3600

\* int(x) of a quotient a / b, b > 0: truncation toward zero.
IntOfQuotient(a, b) == IF a >= 0 THEN a \div b ELSE -((-a) \div b)

\* int(max_width * 50), max_width = total_seconds / 3600 * 0.8
TruncatedLength(duration) == IntOfQuotient(total_seconds(duration) * 8 * 50, 3600 * 10)

\* Python's text[:n]
SliceTo(text, n) ==
    IF n >= 0
    THEN SubSeq(text, 1, IF n < Len(text) THEN n ELSE Len(text))
    ELSE SubSeq(text, 1, IF Len(text) + n > 0 THEN Len(text) + n ELSE 0)

Ellipsis == <<".", ".", ".">>

draw_text(text, duration) ==
    IF text_fits(text, duration)
    THEN text
    ELSE SliceTo(text, TruncatedLength(duration)) \o Ellipsis

(***************************************************************************)
(* generate_plot.                                                          *)
(***************************************************************************)
reversed(s) == [k \in 1..Len(s) |-> s[Len(s) + 1 - k]]

\* The lane taken from order as written, without reversed().
Lane_forward(tail) ==
    Cardinality({k \in 1..Len(order) : \A j \in 1..k : order[j] # tail})

\* The i of "for i, aeronave in enumerate(reversed(order))" at which the
\* rows of the given tail are drawn: the number of aeronaves the loop
\* passes before it reaches the tail.
Lane(tail) ==
    Cardinality({k \in 1..Len(order) : \A j \in 1..k : reversed(order)[j] # tail})

\* pd.Categorical(df['Reg.'], categories=order): a tail outside order
\* becomes NaN and equals no aeronave of the loop.
Known(tail) == tail \in Range(order)

\* Lines 41-47: the bar's start and duration on a page [start_time, end_time).
Clip(salida, llegada, start_time, end_time) ==
    LET duration0 == llegada - salida
        clipLeft == salida < start_time
        duration1 == IF clipLeft THEN duration0 - (start_time - salida) ELSE duration0
        start1 == IF clipLeft THEN start_time ELSE salida
        duration2 == IF start1 + duration1 > end_time THEN end_time - start1 ELSE duration1
    IN  [start |-> start1, duration |-> duration2]

DigitChar == <<"0", "1", "2", "3", "4", "5", "6", "7", "8", "9">>

\* Timestamp.strftime('%H:%M')
strftime(t) ==
    LET h == (t % Days(1)) \div 60
        m == t % 60
    IN  <<DigitChar[(h \div 10) + 1], DigitChar[(h % 10) + 1], ":",
          DigitChar[(m \div 10) + 1], DigitChar[(m % 10) + 1]>>

\* Every row of the period drawn, whatever its tail.
Drawn_all(period) == period

\* The rows generate_plot draws: those of the period whose tail is in order.
Drawn(period) == {k \in period : Known(df[k]["Reg."])}

\* generate_plot raises KeyError when it reads a column the dataframe lacks:
\* Reg. at line 34, Flight / From / To once a row is drawn.
PlotRaises(period) ==
    IF "Reg." \notin Columns
    THEN TRUE
    ELSE /\ Drawn(period) # {}
         /\ {"Flight", "From", "To"} \ Columns # {}

Bar(k, start_time, end_time) ==
    LET c == Clip(fecha_salida[k], fecha_llegada[k], start_time, end_time)
    IN  [row |-> k, lane |-> Lane(df[k]["Reg."]), start |-> c.start, duration |-> c.duration]

\* x2 is twice the x coordinate (texts centred on a bar sit on half minutes);
\* dy is the offset from the lane in hundredths.
Texts(k, start_time, end_time) ==
    LET c == Clip(fecha_salida[k], fecha_llegada[k], start_time, end_time)
        i == Lane(df[k]["Reg."])
        centred(label, dy) ==
            [row |-> k, label |-> label, lane |-> i, dy |-> dy,
             x2 |-> 2 * c.start + c.duration,
             text |-> draw_text(df[k][label], c.duration)]
        edge(label, x, dy, text) ==
            [row |-> k, label |-> label, lane |-> i, dy |-> dy, x2 |-> 2 * x, text |-> text]
    IN  {centred("Flight", 0), centred("Trip", 30), centred("Notas", -25), centred("Tripadi", -40)}
        \cup (IF text_fits(df[k]["From"], c.duration)
              THEN {edge("From", c.start, 20, df[k]["From"])} ELSE {})
        \cup (IF text_fits(df[k]["To"], c.duration)
              THEN {edge("To", c.start + c.duration, 20, df[k]["To"])} ELSE {})
        \cup {edge("salida", c.start, -20, strftime(fecha_salida[k])),
              edge("llegada", c.start + c.duration, -20, strftime(fecha_llegada[k]))}

generate_plot(period, start_time, end_time) ==
    [start_time |-> start_time,
     end_time |-> end_time,
     bars |-> {Bar(k, start_time, end_time) : k \in Drawn(period)},
     texts |-> UNION {Texts(k, start_time, end_time) : k \in Drawn(period)}]

(***************************************************************************)
(* process_and_plot, one action per step of the function.                  *)
(***************************************************************************)
Running == [status |-> "running", error |-> "None", column |-> "None"]

\* Lines 86-89: df['STD'] or df['STA'] is missing: (None, "Missing column ...").
ParseDatesKeyError ==
    /\ pc = "parse"
    /\ {"STD", "STA"} \ Columns # {}
    /\ pc' = "done"
    /\ result' = [status |-> "returned", error |-> "Missing column in input data",
                  column |-> IF "STD" \notin Columns THEN "STD" ELSE "STA"]
    /\ UNCHANGED <<table_data, df, fecha_salida, fecha_llegada, current_date, end_of_data,
                   windows, pdf_buffers>>

\* Lines 86-91: a date column that no format parses: (None, "Date conversion error ...").
ParseDatesValueError ==
    /\ pc = "parse"
    /\ {"STD", "STA"} \subseteq Columns
    /\ ~(parse_dates(Column("STD")).ok /\ parse_dates(Column("STA")).ok)
    /\ pc' = "done"
    /\ result' = [status |-> "returned", error |-> "Date conversion error",
                  column |-> IF ~parse_dates(Column("STD")).ok THEN "STD" ELSE "STA"]
    /\ UNCHANGED <<table_data, df, fecha_salida, fecha_llegada, current_date, end_of_data,
                   windows, pdf_buffers>>

\* Lines 86-87.
ParseDates ==
    /\ pc = "parse"
    /\ {"STD", "STA"} \subseteq Columns
    /\ parse_dates(Column("STD")).ok
    /\ parse_dates(Column("STA")).ok
    /\ fecha_salida' = parse_dates(Column("STD")).values
    /\ fecha_llegada' = parse_dates(Column("STA")).values
    /\ pc' = "fill"
    /\ UNCHANGED <<table_data, df, current_date, end_of_data, windows, pdf_buffers, result>>

\* Lines 93-95, outside the try: a missing Trip, Notas or Tripadi raises KeyError.
FillNaKeyError ==
    /\ pc = "fill"
    /\ {"Trip", "Notas", "Tripadi"} \ Columns # {}
    /\ pc' = "done"
    /\ result' = [status |-> "raised", error |-> "KeyError",
                  column |-> IF "Trip" \notin Columns THEN "Trip"
                             ELSE IF "Notas" \notin Columns THEN "Notas" ELSE "Tripadi"]
    /\ UNCHANGED <<table_data, df, fecha_salida, fecha_llegada, current_date, end_of_data,
                   windows, pdf_buffers>>

\* Lines 93-99.
FillNa ==
    /\ pc = "fill"
    /\ {"Trip", "Notas", "Tripadi"} \subseteq Columns
    /\ df' = [k \in 1..Len(df) |->
                [c \in Columns |-> IF c \in {"Trip", "Notas", "Tripadi"}
                                   THEN fillna(df[k][c]) ELSE df[k][c]]]
    /\ current_date' = normalize(Min(Range(fecha_salida)))
    /\ end_of_data' = Max(Range(fecha_llegada))
    /\ pc' = "loop"
    /\ UNCHANGED <<table_data, fecha_salida, fecha_llegada, windows, pdf_buffers, result>>

current_start_time == current_date + Hours(DayOffsetHours)
current_end_time == current_start_time + Hours(WindowHours) - WindowTrimMinutes

\* Selection by overlap of the flight with the window instead of by departure.
df_period_overlap ==
    {k \in 1..Len(df) : /\ fecha_llegada[k] > current_start_time
                        /\ fecha_salida[k] < current_end_time}

\* Line 104: the rows whose departure lies in [current_start_time, current_end_time).
df_period ==
    {k \in 1..Len(df) : /\ fecha_salida[k] >= current_start_time
                        /\ fecha_salida[k] < current_end_time}

ThisWindow == [start_time |-> current_start_time, end_time |-> current_end_time,
               period |-> df_period]

\* Lines 101-108, df_period empty: no page for this window.
WindowEmpty ==
    /\ pc = "loop"
    /\ current_date <= end_of_data
    /\ df_period = {}
    /\ windows' = Append(windows, ThisWindow)
    /\ current_date' = current_date + Days(1)
    /\ UNCHANGED <<table_data, df, fecha_salida, fecha_llegada, pc, end_of_data, pdf_buffers, result>>

\* Lines 101-108, df_period not empty: one page for this window.
WindowPlot ==
    /\ pc = "loop"
    /\ current_date <= end_of_data
    /\ df_period # {}
    /\ ~PlotRaises(df_period)
    /\ windows' = Append(windows, ThisWindow)
    /\ pdf_buffers' = Append(pdf_buffers,
                             generate_plot(df_period, current_start_time, current_end_time))
    /\ current_date' = current_date + Days(1)
    /\ UNCHANGED <<table_data, df, fecha_salida, fecha_llegada, pc, end_of_data, result>>

\* Lines 105-106: generate_plot raises KeyError, which nothing catches.
WindowPlotKeyError ==
    /\ pc = "loop"
    /\ current_date <= end_of_data
    /\ df_period # {}
    /\ PlotRaises(df_period)
    /\ windows' = Append(windows, ThisWindow)
    /\ pc' = "done"
    /\ result' = [status |-> "raised", error |-> "KeyError",
                  column |-> IF "Reg." \notin Columns THEN "Reg."
                             ELSE IF "Flight" \notin Columns THEN "Flight"
                             ELSE IF "From" \notin Columns THEN "From" ELSE "To"]
    /\ UNCHANGED <<table_data, df, fecha_salida, fecha_llegada, current_date, end_of_data, pdf_buffers>>

\* Line 110: return pdf_buffers, None.
Return ==
    /\ pc = "loop"
    /\ current_date > end_of_data
    /\ pc' = "done"
    /\ result' = [status |-> "returned", error |-> "None", column |-> "None"]
    /\ UNCHANGED <<table_data, df, fecha_salida, fecha_llegada, current_date, end_of_data,
                   windows, pdf_buffers>>

(***************************************************************************)
(* The datasets process_and_plot is given.                                 *)
(***************************************************************************)
Row(reg, form, salida, delta, trip, notas, tripadi) ==
    ("Reg." :> reg) @@
    [STD |-> [form |-> form, t |-> salida],
     STA |-> [form |-> form, t |-> salida + delta],
     Flight |-> <<"Q", "T", "1">>,
     Trip |-> trip,
     Notas |-> notas,
     Tripadi |-> tripadi,
     From |-> <<"B", "O", "G">>,
     To |-> <<"M", "I", "A">>]

Datasets(rows) == UNION {[1..n -> rows] : n \in 1..MaxFlights}

DropColumn(d, c) == [k \in 1..Len(d) |-> [x \in (DOMAIN d[k]) \ {c} |-> d[k][x]]]

\* Departures at 04:00 and 20:00 of day 0 and at 04:00, 06:00 and 10:00 of
\* day 1; arrivals an hour before the departure and two hours and fifteen
\* hours after it.
TimingRows ==
    {Row(reg, "dmy", Hours(h), delta, <<"T", "1">>, NaN, <<"A", "B">>) :
        reg \in {"N330QT", "N999XX"},
        h \in {4, 20, 28, 30, 34},
        delta \in {-60, 120, 900}}

\* Every pattern of missing Trip / Notas / Tripadi, on short and long bars.
LabelRows ==
    {Row("N331QT", "dmy", Hours(10), delta, trip, notas, tripadi) :
        delta \in {-60, 0, 1, 2, 120},
        trip \in {NaN, <<"T", "1">>},
        notas \in {NaN, <<"N">>},
        tripadi \in {NaN, <<"A", "B">>}}

\* Either textual form of a date, or a text neither format parses.
FormRows ==
    {Row(reg, form, Hours(10), 120, <<"T", "1">>, NaN, NaN) :
        reg \in {"N330QT", "N999XX"},
        form \in {"dmy", "dmon", "bad"}}

Inputs ==
    Datasets(TimingRows) \cup Datasets(LabelRows) \cup Datasets(FormRows)
    \cup {DropColumn(d, c) : d \in Datasets(FormRows), c \in RequiredColumns}

Init ==
    /\ table_data \in Inputs
    /\ df = table_data
    /\ fecha_salida = <<>>
    /\ fecha_llegada = <<>>
    /\ pc = "parse"
    /\ current_date = 0
    /\ end_of_data = 0
    /\ windows = <<>>
    /\ pdf_buffers = <<>>
    /\ result = Running

Next ==
    \/ ParseDatesKeyError
    \/ ParseDatesValueError
    \/ ParseDates
    \/ FillNaKeyError
    \/ FillNa
    \/ WindowEmpty
    \/ WindowPlot
    \/ WindowPlotKeyError
    \/ Return

Spec == Init /\ [][Next]_vars

(***************************************************************************)
(* Vocabulary of the properties.                                           *)
(***************************************************************************)
Rows == 1..Len(df)
Pages == 1..Len(pdf_buffers)
Complete == Columns = RequiredColumns
ReturnedPages == pc = "done" /\ result.status = "returned" /\ result.error = "None"

\* The windows that select row k.
SelectedBy(k) == {w \in 1..Len(windows) : k \in windows[w].period}

\* The 0-based position of a tail in the aircraft order as given.
OrderIndex(tail) == (CHOOSE k \in 1..Len(order) : order[k] = tail) - 1

InOrder(tail) == \E k \in 1..Len(order) : order[k] = tail

Lesser(a, b) == IF a <= b THEN a ELSE b
Greater(a, b) == IF a >= b THEN a ELSE b

FilledLabels == {"Trip", "Notas", "Tripadi"}

(***************************************************************************)
(* C1: when process_and_plot returns its pages, every flight row has been  *)
(* selected by exactly one of the windows the loop constructed.            *)
(***************************************************************************)
C1_ExactlyOneWindow ==
    (ReturnedPages /\ Complete) => \A k \in Rows : Cardinality(SelectedBy(k)) = 1

(***************************************************************************)
(* C2: a dataset that lacks a required column ends process_and_plot with   *)
(* the returned missing-column error, never with an escaping exception     *)
(* (checked on the datasets whose date columns, where present, parse).     *)
(***************************************************************************)
DatesParse ==
    \A c \in {"STD", "STA"} \cap DOMAIN table_data[1] :
        parse_dates([k \in 1..Len(table_data) |-> table_data[k][c]]).ok

C2_MissingColumnReturned ==
    (pc = "done" /\ ~Complete /\ DatesParse) =>
        (result.status = "returned" /\ result.error = "Missing column in input data")

(***************************************************************************)
(* C3: when no page was emitted, or every flight has a tail outside the    *)
(* aircraft order, process_and_plot returns an error, not (pages, None).   *)
(***************************************************************************)
C3_EmptyResultIsError ==
    (/\ pc = "done"
     /\ Complete
     /\ \/ pdf_buffers = <<>>
        \/ \A k \in Rows : ~InOrder(df[k]["Reg."]))
    => (result.status = "returned" /\ result.error # "None")

(***************************************************************************)
(* C4: a flight departing before 05:00 is selected by the window starting  *)
(* at 05:00 of the previous calendar day and not by the window starting at *)
(* 05:00 of its own day, also when it is the earliest departure.           *)
(***************************************************************************)
C4_PreviousDayWindow ==
    (ReturnedPages /\ Complete) =>
        \A k \in Rows :
            fecha_salida[k] % Days(1) < Hours(5) =>
                LET own == fecha_salida[k] - (fecha_salida[k] % Days(1)) + Hours(5)
                IN  /\ \E w \in SelectedBy(k) : windows[w].start_time = own - Days(1)
                    /\ \A w \in SelectedBy(k) : windows[w].start_time # own

(***************************************************************************)
(* C5, as stated: the lane of every bar is the 0-based position of the     *)
(* flight's tail in the aircraft order as given.                           *)
(***************************************************************************)
C5_LaneIsOrderIndex ==
    \A p \in Pages : \A b \in pdf_buffers[p].bars :
        b.lane = OrderIndex(df[b.row]["Reg."])

\* The dataset of the scenario: one flight, N330QT, 10:00 to 12:00.
C5_Scenario ==
    /\ Len(table_data) = 1
    /\ DOMAIN table_data[1] = RequiredColumns
    /\ table_data[1]["Reg."] = "N330QT"
    /\ table_data[1]["STD"] = [form |-> "dmy", t |-> Hours(10)]
    /\ table_data[1]["STA"] = [form |-> "dmy", t |-> Hours(12)]

(***************************************************************************)
(* C5, amended: the lane of every bar is the position of the flight's tail *)
(* counted from the END of the aircraft order (last tail = lane 0, first   *)
(* tail N330QT = lane 6); the single flight N330QT 10:00-12:00 yields one  *)
(* page with one bar, at lane 6, over the full interval.                   *)
(***************************************************************************)
C5_LaneIsReversedIndex ==
    /\ \A p \in Pages : \A b \in pdf_buffers[p].bars :
          b.lane = Len(order) - 1 - OrderIndex(df[b.row]["Reg."])
    /\ (C5_Scenario /\ pc = "done") =>
          /\ ReturnedPages
          /\ Len(pdf_buffers) = 1
          /\ pdf_buffers[1].bars =
                {[row |-> 1, lane |-> 6, start |-> Hours(10), duration |-> Hours(2)]}

C5_Witness ==
    /\ C5_Scenario
    /\ ReturnedPages
    /\ \E b \in pdf_buffers[1].bars : b.lane = 6

(***************************************************************************)
(* C6: every drawn bar has a duration d with 0 <= d <= arrival - departure.*)
(***************************************************************************)
C6_DurationInRange ==
    \A p \in Pages : \A b \in pdf_buffers[p].bars :
        /\ 0 <= b.duration
        /\ b.duration <= fecha_llegada[b.row] - fecha_salida[b.row]

(***************************************************************************)
(* C7: a flight whose tail is not in the aircraft order has no bar and no  *)
(* text on any page, whatever its times and whoever shares its window.     *)
(***************************************************************************)
C7_UnknownTailNotDrawn ==
    \A p \in Pages : \A k \in Rows :
        ~InOrder(df[k]["Reg."]) =>
            /\ \A b \in pdf_buffers[p].bars : b.row # k
            /\ \A t \in pdf_buffers[p].texts : t.row # k

\* A page was emitted for a window that selected an unknown tail together
\* with a flight that was drawn.
C7_Witness ==
    \E p \in Pages : \E w \in 1..Len(windows) :
        /\ windows[w].start_time = pdf_buffers[p].start_time
        /\ pdf_buffers[p].bars # {}
        /\ \E k \in windows[w].period : df[k]["Reg."] = "N999XX"

C9_BarOnEveryIntersectingPage ==
    Complete =>
        \A p \in Pages : \A k \in Rows :
            LET lo == Greater(fecha_salida[k], pdf_buffers[p].start_time)
                hi == Lesser(fecha_llegada[k], pdf_buffers[p].end_time)
            IN  (/\ InOrder(df[k]["Reg."])
                 /\ fecha_llegada[k] > fecha_salida[k]
                 /\ SelectedBy(k) # {}
                 /\ lo < hi) =>
                    \E b \in pdf_buffers[p].bars :
                        b.row = k /\ b.start = lo /\ b.start + b.duration = hi

(***************************************************************************)
(* C10: every flight handed to generate_plot departs inside the page's     *)
(* window, so its bar starts at its own departure and lasts                *)
(* min(arrival - departure, end_time - departure).                         *)
(***************************************************************************)
C10_NoLeftClip ==
    /\ \A w \in 1..Len(windows) : \A k \in windows[w].period :
          windows[w].start_time <= fecha_salida[k] /\ fecha_salida[k] < windows[w].end_time
    /\ \A p \in Pages : \A b \in pdf_buffers[p].bars :
          /\ pdf_buffers[p].start_time <= fecha_salida[b.row]
          /\ fecha_salida[b.row] < pdf_buffers[p].end_time
          /\ b.start = fecha_salida[b.row]
          /\ b.duration = Lesser(fecha_llegada[b.row] - fecha_salida[b.row],
                                 pdf_buffers[p].end_time - fecha_salida[b.row])

\* A bar cut at the end of its page, and a bar drawn in full.
C10_Witness ==
    /\ \E p \in Pages : \E b \in pdf_buffers[p].bars :
          /\ fecha_llegada[b.row] > pdf_buffers[p].end_time
          /\ b.duration = pdf_buffers[p].end_time - fecha_salida[b.row]
    /\ \E p \in Pages : \E b \in pdf_buffers[p].bars :
          /\ fecha_llegada[b.row] < pdf_buffers[p].end_time
          /\ b.duration = fecha_llegada[b.row] - fecha_salida[b.row]

====
